---- MODULE Spec2Model ----
(***************************************************************************)
(* FireworkCanvas: the simulation and rendering core of the firework       *)
(* component (rockets, particles, stars, constellations) as a state        *)
(* machine.                                                                *)
(*                                                                         *)
(* Numbers.  The source computes in IEEE doubles.  Here every length,      *)
(* velocity and opacity is a fixed-point integer counted in 1/Unit, and    *)
(* Math.random() is an explicit draw u in 0..RandDen-1 standing for        *)
(* u/RandDen in [0,1).  random rounds its product down to 1/Unit;          *)
(* friction is a whole number of hundredths and the product is rounded to  *)
(* the nearest 1/Unit.  Angles are eighth turns: Math.cos and Math.sin are *)
(* tables of their values in 1/Unit, and the product with the burst        *)
(* velocity is truncated toward zero, so that a component never exceeds    *)
(* the real one in magnitude.                                              *)
(*                                                                         *)
(* Fields that the source does not have (y0, age, steps, prev, born,       *)
(* fresh, gen, and the variables listed as history variables) only record  *)
(* what happened; no guard or assignment of a source field reads them.     *)
(***************************************************************************)
EXTENDS Integers, Sequences, FiniteSets, TLC

VARIABLES
    canvas,           \* canvasRef.current: present?, width, height (device pixels)
    dpr,              \* window.devicePixelRatio
    rect,             \* containerRef.current.getBoundingClientRect(): width, height
    config,           \* the config prop
    trailSource,      \* the draws Math.random() gives the rocket loop in this run
    burstSource,      \* the draws it gives createFirework, one entry per iteration
    particles,        \* particlesRef.current
    stars,            \* starsRef.current
    rockets,          \* rocketsRef.current
    constellations,   \* constellationsRef.current
    ctx,              \* the 2D context: globalCompositeOperation, globalAlpha
    animationFrameRef, \* animationFrameRef.current: a request id, 0 for undefined
    pending,          \* the frame callbacks the browser holds, oldest first
    mounted,          \* the component is mounted (handlers and listeners attached)
    isInteractionActive, \* isInteractionActive.current
    lastLaunchTime,   \* lastLaunchTime.current, in ms
    now,              \* Date.now(), in ms
    loopStarted,      \* the loop effect has run for the first time
    \* history variables
    lastOp,           \* the handler that ran last
    rendered,         \* the config the last call of render was closed over
    req,              \* the point of the last spawn request since the last tick
    launched,         \* spawn requests that pushed a rocket
    resizes,          \* runs of handleResize after the one of the mount
    changes,          \* changes of the config prop
    detonated,        \* rockets that were removed by the rocket pass
    bursts,           \* createFirework calls of the last tick, in call order
    passStart,        \* the particle pool as the particle pass of the last tick found it
    removedRockets,   \* rockets spliced out in the last tick
    removedParticles, \* particles spliced out in the last tick
    emitted,          \* trail particles pushed in the last tick, as created
    skyBefore,        \* <<stars, constellations>> as they were when the last tick began
    skyAge,           \* ticks that ran with config.starfield set
    frame,            \* the draw calls of the last tick, in call order
    inputs            \* the pointer and touch events so far: kind, time, request issued?

vars == <<canvas, dpr, rect, config, trailSource, burstSource, particles, stars,
          rockets, constellations, ctx, animationFrameRef, pending, mounted,
          isInteractionActive, lastLaunchTime, now, inputs, loopStarted,
          lastOp, rendered, req, launched, resizes, changes, detonated, bursts,
          passStart, removedRockets,
          removedParticles, emitted, skyBefore, skyAge, frame>>

pools == <<particles, stars, rockets, constellations>>

\* the interaction state of the component, the clock, and the event history
inputState == <<isInteractionActive, lastLaunchTime, now, inputs>>

----------------------------------------------------------------------------
(* Number representation *)

Unit == 10000        \* one logical pixel, one unit of speed, opacity 1

RandDen == 1000      \* Math.random() draws are u/RandDen, u in 0..RandDen-1

FrictionDen == 100   \* config.friction is counted in hundredths

U == 0 .. (RandDen - 1)

\* const random = (min, max) => Math.random() * (max - min) + min
\* (the product u * (max - min) / RandDen, rounded down, computed in two parts)
random(min, max, u) ==
    u * ((max - min) \div RandDen) + (u * ((max - min) % RandDen)) \div RandDen + min

\* Math.floor(Math.random() * 360)
randomHue(u) == (u * 360) \div RandDen

\* a * (f / FrictionDen), rounded to the nearest 1/Unit
MulFriction(a, f) == (2 * a * f + FrictionDen) \div (2 * FrictionDen)

\* Math.cos / Math.sin of random(0, 2*PI), in 1/Unit, at the eighth of a turn
\* the draw u falls in (0.7071 stands for the square root of 1/2)
Cos8(u) ==
    << Unit, 7071, 0, -7071, -Unit, -7071, 0, 7071 >>[(u * 8) \div RandDen + 1]

Sin8(u) ==
    << 0, 7071, Unit, 7071, 0, -7071, -Unit, -7071 >>[(u * 8) \div RandDen + 1]

\* a * b for two fixed-point numbers, the fraction beyond 1/Unit cut off
\* towards zero
MulUnit(a, b) ==
    IF a * b >= 0 THEN (a * b) \div Unit ELSE -((-(a * b)) \div Unit)

\* a record of draws written in quarters: the field value k stands for k/4
quarters(d) == [f \in DOMAIN d |-> d[f] * (RandDen \div 4)]

CeilDiv(a, b) == (a + b - 1) \div b

----------------------------------------------------------------------------
(* Sequences as JavaScript arrays (indices here are 1-based) *)

\* Array.prototype.splice(start, deleteCount), start given 1-based
splice(s, start, deleteCount) ==
    SubSeq(s, 1, start - 1) \o SubSeq(s, start + deleteCount, Len(s))

\* Array.prototype.push
push(s, e) == Append(s, e)

\* Array.prototype.map / forEach results, as an explicit sequence
array(f) == <<>> \o f

----------------------------------------------------------------------------
(* Frame scheduler of the browser *)

\* requestAnimationFrame(callback): the id it returns, one no pending request has
requestId(q) ==
    CHOOSE id \in 1 .. Len(q) + 1 :
        /\ \A k \in 1 .. Len(q) : q[k].id # id
        /\ \A j \in 1 .. id - 1 : \E k \in 1 .. Len(q) : q[k].id = j

\* requestAnimationFrame(render), render being the closure over the config cfg
requestAnimationFrame(q, cfg) == push(q, [id |-> requestId(q), cfg |-> cfg])

\* cancelAnimationFrame(id)
cancelAnimationFrame(q, id) == SelectSeq(q, LAMBDA cb : cb.id # id)

\* if (animationFrameRef.current) cancelAnimationFrame(animationFrameRef.current)
cancelLoop(q, ref) == IF ref # 0 THEN cancelAnimationFrame(q, ref) ELSE q

----------------------------------------------------------------------------
(* Spawn gateway *)

\* the rocket that launchRocket pushes; d holds its three Math.random() draws
newRocket(targetX, targetY, d) ==
    LET startX == targetX
        startY == canvas.height * Unit
        hue    == randomHue(d.uh)
        speed  == random(12 * Unit, 15 * Unit, d.us)
    IN  [x |-> startX, y |-> startY, targetY |-> targetY,
         vx |-> random(-(Unit \div 2), Unit \div 2, d.uv),
         vy |-> -speed, hue |-> hue, trailTimer |-> 0,
         y0 |-> startY, age |-> 0]

\* launchRocket with the pool assigned instead of pushed to
launchRocket_replace(targetX, targetY, d) ==
    IF ~canvas.present THEN rockets
    ELSE <<newRocket(targetX, targetY, d)>>

\* launchRocket: the rocket pool after the call
launchRocket(targetX, targetY, d) ==
    IF ~canvas.present THEN rockets
    ELSE push(rockets, newRocket(targetX, targetY, d))

----------------------------------------------------------------------------
(* Burst creation *)

\* burstParticle with the speed given to each axis in full
burstParticle_perAxis(x, y, baseColorHue, cfg, d) ==
    LET velocity == random(0, cfg.spread, d.us)
        hue      == random(baseColorHue - 20, baseColorHue + 20, d.uh)
        vx0      == IF Cos8(d.ua) >= 0 THEN velocity ELSE -velocity
        vy0      == IF Sin8(d.ua) >= 0 THEN velocity ELSE -velocity
    IN  [x |-> x, y |-> y, vx |-> vx0, vy |-> vy0,
         alpha |-> Unit,
         color |-> <<hue, 100, 65>>,
         size |-> random(Unit, cfg.baseSize, d.uz),
         decay |-> random(cfg.decayRate \div 2, (3 * cfg.decayRate) \div 2, d.ud),
         steps |-> 0, prev |-> Unit, fresh |-> TRUE,
         born |-> [x |-> x, y |-> y, vx |-> vx0, vy |-> vy0, alpha |-> Unit]]

\* one particle of a burst; d holds the draws of one loop iteration
burstParticle(x, y, baseColorHue, cfg, d) ==
    LET velocity == random(0, cfg.spread, d.us)
        hue      == random(baseColorHue - 20, baseColorHue + 20, d.uh)
        vx0      == MulUnit(Cos8(d.ua), velocity)
        vy0      == MulUnit(Sin8(d.ua), velocity)
    IN  [x |-> x, y |-> y, vx |-> vx0, vy |-> vy0,
         alpha |-> Unit,
         color |-> <<hue, 100, 65>>,
         size |-> random(Unit, cfg.baseSize, d.uz),
         decay |-> random(cfg.decayRate \div 2, (3 * cfg.decayRate) \div 2, d.ud),
         steps |-> 0, prev |-> Unit, fresh |-> TRUE,
         born |-> [x |-> x, y |-> y, vx |-> vx0, vy |-> vy0, alpha |-> Unit]]

\* the number of iterations of for (let i = 0; i < particleCount; i++)
burstLoopCount(particleCount) == IF particleCount > 0 THEN particleCount ELSE 0

\* createFirework with the pool assigned instead of pushed to
createFirework_overwrite(pool, x, y, overrideHue, cfg, uBase, draws) ==
    LET baseColorHue == IF overrideHue # <<>> THEN overrideHue[1] ELSE randomHue(uBase)
    IN  array([k \in 1 .. burstLoopCount(cfg.particleCount) |->
                  burstParticle(x, y, baseColorHue, cfg, draws[k])])

\* createFirework(x, y, overrideHue): the particle pool after the call.
\* overrideHue is <<h>> when given and <<>> when undefined; draws[k] are the
\* draws of iteration k and uBase the draw of the fresh base hue.
createFirework(pool, x, y, overrideHue, cfg, uBase, draws) ==
    LET particleCount == cfg.particleCount
        baseColorHue  == IF overrideHue # <<>> THEN overrideHue[1] ELSE randomHue(uBase)
    IN  pool \o [k \in 1 .. burstLoopCount(particleCount) |->
                    burstParticle(x, y, baseColorHue, cfg, draws[k])]

----------------------------------------------------------------------------
(* Rocket pass of render *)

\* the rocket step with gravity acting on the rocket
moveRocket_ballistic(rocket) ==
    [rocket EXCEPT !.x = rocket.x + rocket.vx, !.y = rocket.y + rocket.vy,
                   !.vy = rocket.vy + (15 * Unit) \div 100,
                   !.age = rocket.age + 1]

\* rocket.x += rocket.vx; rocket.y += rocket.vy
moveRocket(rocket) ==
    [rocket EXCEPT !.x = rocket.x + rocket.vx, !.y = rocket.y + rocket.vy,
                   !.age = rocket.age + 1]

\* if (Math.random() < 0.5)
trailEmits(d) == 2 * d.ue < RandDen

\* the trail particle pushed behind a rocket; d holds its draws
trailParticle(rocket, d) ==
    LET vx0 == ((d.uvx * Unit) \div RandDen - Unit \div 2) \div 2
        vy0 == random(Unit, 3 * Unit, d.uvy)
        a0  == random(Unit \div 2, Unit, d.ua)
    IN  [x |-> rocket.x, y |-> rocket.y, vx |-> vx0, vy |-> vy0,
         alpha |-> a0,
         color |-> <<rocket.hue, 80, 50>>,
         size |-> random(Unit \div 2, (3 * Unit) \div 2, d.uz),
         decay |-> random((3 * Unit) \div 100, (6 * Unit) \div 100, d.ud),
         steps |-> 0, prev |-> a0, fresh |-> TRUE,
         born |-> [x |-> rocket.x, y |-> rocket.y, vx |-> vx0, vy |-> vy0,
                   alpha |-> a0]]

\* the termination test with < in place of <=
reachedTarget_strict(rocket) == rocket.y < rocket.targetY

\* if (rocket.y <= rocket.targetY)
reachedTarget(rocket) == rocket.y <= rocket.targetY

\* splice at the index after the rocket's
removeRocket_offByOne(pool, i) == splice(pool, i + 1, 1)

\* splice(i) without a delete count: everything from i on goes
removeRocket_truncate(pool, i) == SubSeq(pool, 1, i - 1)

\* rocketsRef.current.splice(i, 1)
removeRocket(pool, i) == splice(pool, i, 1)

\* One iteration of the rocket loop at index i.  st carries the two pools and
\* what the pass has done so far; trail[i] and burst[i] are the draws.
rocketStep(st, i, cfg, trail, burst) ==
    LET rocket    == moveRocket(st.rockets[i])
        moved     == [st.rockets EXCEPT ![i] = rocket]
        emits     == trailEmits(trail[i])
        tp        == trailParticle(rocket, trail[i])
        afterEmit == IF emits THEN push(st.particles, tp) ELSE st.particles
        afterFire == createFirework(afterEmit, rocket.x, rocket.targetY,
                                    <<rocket.hue>>, cfg, 0, burst[i])
    IN  IF reachedTarget(rocket)
        THEN [rockets   |-> removeRocket(moved, i),
              particles |-> afterFire,
              bursts    |-> Append(st.bursts,
                               [x |-> rocket.x, y |-> rocket.targetY,
                                hue |-> rocket.hue, count |-> cfg.particleCount,
                                pre |-> afterEmit, post |-> afterFire]),
              removed   |-> Append(st.removed, rocket),
              emitted   |-> IF emits THEN Append(st.emitted, tp) ELSE st.emitted]
        ELSE [st EXCEPT !.rockets = moved, !.particles = afterEmit,
                        !.emitted = IF emits THEN Append(st.emitted, tp)
                                    ELSE st.emitted]

\* for (let i = rocketsRef.current.length - 1; i >= 0; i--)
RECURSIVE rocketLoop(_, _, _, _, _)
rocketLoop(st, i, cfg, trail, burst) ==
    IF i < 1 THEN st
    ELSE CHOOSE after \in
             {rocketLoop(next, i - 1, cfg, trail, burst) :
                 next \in {rocketStep(st, i, cfg, trail, burst)}} :
             TRUE

rocketPass(rs, ps, cfg, trail, burst) ==
    rocketLoop([rockets |-> rs, particles |-> ps, bursts |-> <<>>,
                removed |-> <<>>, emitted |-> <<>>],
               Len(rs), cfg, trail, burst)

----------------------------------------------------------------------------
(* Particle pass of render *)

\* the physics block with alpha += decay
integrate_gain(p, cfg) ==
    LET vx1 == MulFriction(p.vx, cfg.friction)
        vy1 == MulFriction(p.vy, cfg.friction) + cfg.gravity
    IN  [p EXCEPT !.vx = vx1, !.vy = vy1,
                  !.x = p.x + vx1, !.y = p.y + vy1,
                  !.alpha = p.alpha + p.decay,
                  !.prev = p.alpha, !.steps = p.steps + 1]

\* the physics block with gravity added before the friction damping
integrate_gravityFirst(p, cfg) ==
    LET vx1 == MulFriction(p.vx, cfg.friction)
        vy1 == MulFriction(p.vy + cfg.gravity, cfg.friction)
    IN  [p EXCEPT !.vx = vx1, !.vy = vy1,
                  !.x = p.x + vx1, !.y = p.y + vy1,
                  !.alpha = p.alpha - p.decay,
                  !.prev = p.alpha, !.steps = p.steps + 1]

\* the physics block of the particle loop
integrate(p, cfg) ==
    LET vx1 == MulFriction(p.vx, cfg.friction)
        vy1 == MulFriction(p.vy, cfg.friction) + cfg.gravity
    IN  [p EXCEPT !.vx = vx1, !.vy = vy1,
                  !.x = p.x + vx1, !.y = p.y + vy1,
                  !.alpha = p.alpha - p.decay,
                  !.prev = p.alpha, !.steps = p.steps + 1]

\* the removal test with < in place of <=
isDead_strict(p) == p.alpha < 0

\* if (p.alpha <= 0)
isDead(p) == p.alpha <= 0

\* ctx.arc(p.x, p.y, p.size, 0, Math.PI * 2): the canvas throws IndexSizeError
\* when the radius is negative
arcThrows(p) == p.size < 0

\* One iteration of the particle loop at index i: the physics, the removal of
\* a dead particle, the drawing of a live one.  st.drawn are the particles
\* drawn so far, in call order; st.thrown holds the particle whose arc threw.
particleStep(st, i, cfg) ==
    LET p == integrate(st.particles[i], cfg)
    IN  IF isDead(p)
        THEN [st EXCEPT !.particles = splice(st.particles, i, 1),
                        !.removed = Append(st.removed, p)]
        ELSE IF arcThrows(p)
        THEN [st EXCEPT !.particles[i] = p, !.thrown = <<p>>]
        ELSE [st EXCEPT !.particles[i] = p, !.drawn = Append(st.drawn, p)]

\* the loop with the index lowered once more after a removal
RECURSIVE particleLoop_skip(_, _, _, _)
particleLoop_skip(st, lo, hi, cfg) ==
    IF hi < lo \/ st.thrown # <<>> THEN st
    ELSE LET next == particleStep(st, hi, cfg)
         IN  particleLoop_skip(next, lo,
                               IF Len(next.particles) < Len(st.particles)
                               THEN hi - 2 ELSE hi - 1,
                               cfg)

\* for (let i = particlesRef.current.length - 1; i >= 0; i--), from index hi
\* down to index lo; an exception ends the loop and the render call.  The
\* range is split in two so that the evaluation does not nest as deep as the
\* pool is long: the upper half runs first, then the lower half.
RECURSIVE particleLoop(_, _, _, _)
particleLoop(st, lo, hi, cfg) ==
    IF hi < lo \/ st.thrown # <<>> THEN st
    ELSE IF lo = hi THEN particleStep(st, hi, cfg)
    ELSE LET mid == (lo + hi) \div 2
         IN  CHOOSE after \in
                 {particleLoop(upper, lo, mid, cfg) :
                     upper \in {particleLoop(st, mid + 1, hi, cfg)}} :
                 TRUE

particlePass(ps, cfg) ==
    particleLoop([particles |-> ps, removed |-> <<>>, drawn |-> <<>>,
                  thrown |-> <<>>],
                 1, Len(ps), cfg)

----------------------------------------------------------------------------
(* Background field generator *)

\* CONSTELLATION_PATTERNS, coordinates in hundredths
CONSTELLATION_PATTERNS == <<
    << <<0, 30>>, <<15, 20>>, <<30, 25>>, <<45, 35>>, <<45, 55>>, <<70, 55>>,
       <<70, 35>>, <<45, 35>> >>,
    << <<0, 80>>, <<25, 20>>, <<50, 60>>, <<75, 20>>, <<100, 80>> >>,
    << <<20, 0>>, <<80, 0>>, <<35, 45>>, <<50, 45>>, <<65, 45>>, <<20, 90>>,
       <<80, 90>> >>,
    << <<80, 10>>, <<70, 15>>, <<60, 20>>, <<60, 40>>, <<65, 60>>, <<80, 75>>,
       <<90, 70>>, <<95, 60>> >>,
    << <<60, 40>>, <<75, 50>>, <<90, 40>>, <<60, 40>>, <<50, 25>>, <<50, 10>>,
       <<35, 5>>, <<25, 15>> >> >>

StarArea == 3000             \* 1 star per 3000px^2

ConstellationCount == 4      \* const count = 4

PatternWidth == 200          \* const width = 200 (render, constellation wrap)

Min(a, b) == IF a < b THEN a ELSE b

\* one star of initStars; d holds its draws
newStar(width, height, d) ==
    LET depth == random(Unit \div 5, Unit, d.ud)
        size  == (random(Unit \div 2, (5 * Unit) \div 2, d.uz) * depth) \div Unit
    IN  [x |-> random(0, width * Unit, d.ux),
         y |-> random(0, height * Unit, d.uy),
         vx |-> -((2 * depth) \div 10),
         vy |-> (2 * depth) \div 100,
         size |-> size,
         maxOpacity |-> Min(Unit, random((4 * Unit) \div 10, (8 * Unit) \div 10, d.uo)
                                   + (2 * depth) \div 10),
         twinklePhase |-> d.up,
         twinkleSpeed |-> random(Unit \div 2, 2 * Unit, d.ut)]

\* initStars(width, height): the new star pool; star i uses the draws seed[i]
\* (the seed is reused cyclically when it is shorter than the pool)
initStars(width, height, seed) ==
    LET area      == width * height
        starCount == area \div StarArea
    IN  array([i \in 1 .. starCount |->
                  newStar(width, height, seed[((i - 1) % Len(seed)) + 1])])

\* one constellation of initConstellations; d holds its draws
newConstellation(width, height, d) ==
    LET pattern == CONSTELLATION_PATTERNS[(d.up * Len(CONSTELLATION_PATTERNS)) \div RandDen + 1]
        scale   == random(100 * Unit, 200 * Unit, d.us)
        startX  == random(0, width * Unit, d.ux)
        startY  == random(0, height * Unit, d.uy)
        depth   == random(Unit \div 10, (15 * Unit) \div 100, d.ud)
    IN  [stars |-> array([k \in 1 .. Len(pattern) |->
                       [x |-> startX + (pattern[k][1] * scale) \div 100,
                        y |-> startY + (pattern[k][2] * scale) \div 100]]),
         vx |-> -((15 * depth) \div 100),
         vy |-> depth \div 100,
         alpha |-> random(Unit \div 10, (3 * Unit) \div 10, d.ua)]

\* initConstellations(width, height): the new constellation pool
initConstellations(width, height, seed) ==
    array([i \in 1 .. ConstellationCount |->
              newConstellation(width, height, seed[((i - 1) % Len(seed)) + 1])])

----------------------------------------------------------------------------
(* Starfield and constellation update of render *)

\* updateStar with the coordinate reduced modulo the bound instead of put on
\* the opposite edge
updateStar_modulo(star, logicalWidth, logicalHeight) ==
    [star EXCEPT !.x = (star.x + star.vx) % (logicalWidth + 1),
                 !.y = (star.y + star.vy) % (logicalHeight + 1)]

\* the body of starsRef.current.forEach: drift, then the four wrap tests in order
updateStar(star, logicalWidth, logicalHeight) ==
    LET x1 == star.x + star.vx
        y1 == star.y + star.vy
        x2 == IF x1 < 0 THEN logicalWidth ELSE x1
        x3 == IF x2 > logicalWidth THEN 0 ELSE x2
        y2 == IF y1 < 0 THEN logicalHeight ELSE y1
        y3 == IF y2 > logicalHeight THEN 0 ELSE y2
    IN  [star EXCEPT !.x = x3, !.y = y3]

\* updateConstellation with the wrap test made on each point by itself
updateConstellation_perPoint(constellation, logicalWidth) ==
    LET width == PatternWidth * Unit
        diff  == logicalWidth + width + width
    IN  [constellation EXCEPT !.stars =
            array([k \in 1 .. Len(constellation.stars) |->
                LET x1 == constellation.stars[k].x + constellation.vx
                IN  [x |-> IF x1 < -width THEN x1 + diff ELSE x1,
                     y |-> constellation.stars[k].y + constellation.vy]])]

\* updateConstellation with the shape shifted by the surface width and one
\* pattern width
updateConstellation_shortShift(constellation, logicalWidth) ==
    LET movedStars == array([k \in 1 .. Len(constellation.stars) |->
                          [x |-> constellation.stars[k].x + constellation.vx,
                           y |-> constellation.stars[k].y + constellation.vy]])
        width      == PatternWidth * Unit
        diff       == logicalWidth + width
    IN  IF movedStars[1].x < -width
        THEN [constellation EXCEPT !.stars =
                 array([k \in 1 .. Len(movedStars) |->
                     [movedStars[k] EXCEPT !.x = movedStars[k].x + diff]])]
        ELSE [constellation EXCEPT !.stars = movedStars]

\* the body of constellationsRef.current.forEach: translate, then wrap as a unit
updateConstellation(constellation, logicalWidth) ==
    LET movedStars == array([k \in 1 .. Len(constellation.stars) |->
                          [x |-> constellation.stars[k].x + constellation.vx,
                           y |-> constellation.stars[k].y + constellation.vy]])
        refStar    == movedStars[1]
        width      == PatternWidth * Unit
        diff       == logicalWidth + width + width
    IN  IF refStar.x < -width
        THEN [constellation EXCEPT !.stars =
                 array([k \in 1 .. Len(movedStars) |->
                     [movedStars[k] EXCEPT !.x = movedStars[k].x + diff]])]
        ELSE [constellation EXCEPT !.stars = movedStars]

\* the star update with a star that leaves the surface dropped from the pool
starsAfter_cull(cfg) ==
    LET logicalWidth  == (canvas.width * Unit) \div dpr
        logicalHeight == (canvas.height * Unit) \div dpr
        inside(i)     == /\ stars[i].x + stars[i].vx >= 0
                         /\ stars[i].x + stars[i].vx <= logicalWidth
        kept          == {i \in 1 .. Len(stars) : inside(i)}
    IN  IF cfg.starfield
        THEN array([n \in 1 .. Cardinality(kept) |->
                 LET i == CHOOSE k \in kept :
                              Cardinality({m \in kept : m < k}) = n - 1
                 IN  updateStar(stars[i], logicalWidth, logicalHeight)])
        ELSE stars

\* the star update hoisted out of if (config.starfield)
starsAfter_always(cfg) ==
    LET logicalWidth  == (canvas.width * Unit) \div dpr
        logicalHeight == (canvas.height * Unit) \div dpr
    IN  array([i \in 1 .. Len(stars) |->
                  updateStar(stars[i], logicalWidth, logicalHeight)])

\* the stars after the starfield block of one render
starsAfter(cfg) ==
    LET logicalWidth  == (canvas.width * Unit) \div dpr
        logicalHeight == (canvas.height * Unit) \div dpr
    IN  IF cfg.starfield
        THEN array([i \in 1 .. Len(stars) |->
                       updateStar(stars[i], logicalWidth, logicalHeight)])
        ELSE stars

\* the constellations after the starfield block of one render
constellationsAfter(cfg) ==
    LET logicalWidth == (canvas.width * Unit) \div dpr
    IN  IF cfg.starfield /\ cfg.showConstellations
        THEN array([i \in 1 .. Len(constellations) |->
                       updateConstellation(constellations[i], logicalWidth)])
        ELSE constellations

\* the two pools after one render with starfield and showConstellations set
skyTick(sky, logicalWidth, logicalHeight) ==
    [stars |-> array([i \in 1 .. Len(sky.stars) |->
                  updateStar(sky.stars[i], logicalWidth, logicalHeight)]),
     constellations |-> array([i \in 1 .. Len(sky.constellations) |->
                  updateConstellation(sky.constellations[i], logicalWidth)])]

\* the two pools after n such renders in a row
RECURSIVE skyAfterTicks(_, _, _, _)
skyAfterTicks(sky, n, logicalWidth, logicalHeight) ==
    IF n = 0 THEN sky
    ELSE IF n = 1 THEN skyTick(sky, logicalWidth, logicalHeight)
    ELSE CHOOSE after \in
             {skyAfterTicks(half, n - n \div 2, logicalWidth, logicalHeight) :
                 half \in {skyAfterTicks(sky, n \div 2, logicalWidth, logicalHeight)}} :
             TRUE

----------------------------------------------------------------------------
(* Drawing: the calls render issues on the 2D context *)

Max(a, b) == IF a > b THEN a ELSE b

\* one draw call: the layer it belongs to, the context method, the composite
\* mode and globalAlpha in force, and the alpha of the fill or stroke style
\* in hundredths
draw(layer, call, c, style) ==
    [layer |-> layer, call |-> call, op |-> c.globalCompositeOperation,
     globalAlpha |-> c.globalAlpha, style |-> style]

RECURSIVE flat(_)
flat(seqs) == IF seqs = <<>> THEN <<>> ELSE Head(seqs) \o flat(Tail(seqs))

\* the trail fade or the clear at the top of render
drawBackground(cfg, c) ==
    IF cfg.trailEffect
    THEN LET c1 == [c EXCEPT !.globalCompositeOperation = "source-over"]
         IN  [ctx |-> c1, draws |-> << draw("background", "fillRect", c1, 15) >>]
    ELSE [ctx |-> c, draws |-> << draw("background", "clearRect", c, 0) >>]

\* opacity of a star; twinkle is Math.sin(time * twinkleSpeed + twinklePhase)
starOpacity(star, twinkle) ==
    (7 * star.maxOpacity) \div 10 + (twinkle * 3 * star.maxOpacity) \div (10 * Unit)

\* the star loop: each star sets globalAlpha and fills its disc
drawStars(c, pool, twinkle) ==
    LET alphaOf(i) == Max(0, starOpacity(pool[i], twinkle[i]))
    IN  [ctx |-> IF pool = <<>> THEN c
                 ELSE [c EXCEPT !.globalAlpha = alphaOf(Len(pool))],
         draws |-> array([i \in 1 .. Len(pool) |->
                       draw("stars", "fill", [c EXCEPT !.globalAlpha = alphaOf(i)],
                            100)])]

\* one constellation: the dashed line through its points, then a dot per point
drawConstellation(c, constellation) ==
    << draw("constellations", "stroke", c, 15) >>
        \o array([k \in 1 .. Len(constellation.stars) |->
                     draw("constellations", "fill", c, 40)])

\* the starfield block without its own globalCompositeOperation assignment
drawStarfield_keepMode(cfg, c, starPool, constellationPool, twinkle) ==
    IF ~cfg.starfield THEN [ctx |-> c, draws |-> <<>>]
    ELSE LET st == drawStars(c, starPool, twinkle)
             cs == IF cfg.showConstellations
                   THEN flat(array([i \in 1 .. Len(constellationPool) |->
                                drawConstellation(st.ctx, constellationPool[i])]))
                   ELSE <<>>
         IN  [ctx |-> [st.ctx EXCEPT !.globalAlpha = Unit],
              draws |-> st.draws \o cs]

\* if (config.starfield) { ... }: the context and the draws after the block
drawStarfield(cfg, c, starPool, constellationPool, twinkle) ==
    IF ~cfg.starfield THEN [ctx |-> c, draws |-> <<>>]
    ELSE LET c1 == [c EXCEPT !.globalCompositeOperation = "source-over"]
             st == drawStars(c1, starPool, twinkle)
             cs == IF cfg.showConstellations
                   THEN flat(array([i \in 1 .. Len(constellationPool) |->
                                drawConstellation(st.ctx, constellationPool[i])]))
                   ELSE <<>>
         IN  [ctx |-> [st.ctx EXCEPT !.globalAlpha = Unit],
              draws |-> st.draws \o cs]

\* the rocket heads and the particles that are drawn, under 'lighter'; each
\* particle is drawn between ctx.save() and ctx.restore().  thrown holds the
\* particle whose arc threw after ctx.save() and the globalAlpha assignment
\* (a value above 1 is ignored by the setter).
drawFireworks(c, rocketCount, survivors, thrown) ==
    LET c1 == [c EXCEPT !.globalCompositeOperation = "lighter"]
    IN  [ctx |-> IF thrown # <<>> /\ thrown[1].alpha <= Unit
                 THEN [c1 EXCEPT !.globalAlpha = thrown[1].alpha]
                 ELSE c1,
         draws |-> array([i \in 1 .. rocketCount |-> draw("rockets", "fill", c1, 100)])
                   \o array([i \in 1 .. Len(survivors) |->
                         draw("particles", "fill",
                              [c1 EXCEPT !.globalAlpha = survivors[i].alpha], 100)])]

\* the draw calls of one render and the context it leaves
drawFrame(cfg, c, starPool, constellationPool, twinkle, rocketCount, drawn, thrown) ==
    LET bg == drawBackground(cfg, c)
        sf == drawStarfield(cfg, bg.ctx, starPool, constellationPool, twinkle)
        fw == drawFireworks(sf.ctx, rocketCount, drawn, thrown)
    IN  [ctx |-> fw.ctx, draws |-> bg.draws \o sf.draws \o fw.draws]

----------------------------------------------------------------------------
(* Bounds and the inputs the model draws from *)

MaxLaunches == 2     \* spawn requests that push a rocket, per behaviour

MaxTrails == 1       \* trail particles alive at once (more are not drawn)

MaxSkyAge == 5       \* ticks that move the starfield, per behaviour

MaxResizes == 1      \* resize events, per behaviour

MaxChanges == 1      \* changes of the config prop, per behaviour

MaxSpawns == 1       \* spawn requests of a lifecycle run

MaxInputs == 3       \* pointer and touch events, per behaviour

MaxClock == 90       \* ms that pass after the mount, per behaviour

\* Date.now() at the mount, in ms
StartTime == 1000

\* ms between two events
Delays == {20, 21}

\* if (now - lastLaunchTime.current > 40)
ThrottleMs == 40

\* devicePixelRatio values
Dprs == {1, 2}

\* container sizes in CSS pixels
Rects == {[width |-> 300, height |-> 20]}

\* container sizes a resize event finds
ResizeRects == {[width |-> 200, height |-> 15]}

\* surface-local points of spawn requests
Points == << [x |-> 10 * Unit, y |-> 6 * Unit], [x |-> 30 * Unit, y |-> 3 * Unit] >>

\* draws of launchRocket: hue, speed, wobble; the k-th go with the k-th point
LaunchDraws ==
    << quarters([uh |-> 0, us |-> 0, uv |-> 2]),
       quarters([uh |-> 2, us |-> 2, uv |-> 0]) >>

\* draws of one rocket-loop iteration: emission test and the trail particle
TrailDraws ==
    {quarters([ue |-> 2, uvx |-> 0, uvy |-> 0, ua |-> 0, uz |-> 0, ud |-> 0]),
     quarters([ue |-> 1, uvx |-> 0, uvy |-> 2, ua |-> 0, uz |-> 2, ud |-> 3])}

\* draws of one createFirework iteration: angle, speed, hue, size, decay
BurstDraws ==
    << quarters([ua |-> 0, us |-> 3, uh |-> 0, uz |-> 0, ud |-> 0]),
       quarters([ua |-> 1, us |-> 2, uh |-> 2, uz |-> 2, ud |-> 2]) >>

\* draws of the n iterations of one createFirework call: the two alternate,
\* starting with either
BurstRuns(table, n) ==
    {[j \in 1 .. n |-> table[((j + k) % Len(table)) + 1]] : k \in 0 .. 1}

\* values of Math.sin(...) in the twinkle of a star
Twinkles == << -Unit, Unit >>

\* the twinkles of the n stars in one tick: the two values alternate, starting
\* with either
TwinkleRuns(n) ==
    {[i \in 1 .. n |-> Twinkles[((i + k) % 2) + 1]] : k \in 0 .. 1}

\* draws of one star and of one constellation
StarSeed ==
    << quarters([ud |-> 0, uz |-> 0, ux |-> 0, uy |-> 2, uo |-> 0, up |-> 0, ut |-> 0]),
       quarters([ud |-> 3, uz |-> 2, ux |-> 3, uy |-> 0, uo |-> 3, up |-> 1, ut |-> 2]) >>

ConstellationSeed ==
    << quarters([up |-> 0, us |-> 0, ux |-> 0, uy |-> 1, ud |-> 0, ua |-> 0]),
       quarters([up |-> 1, us |-> 2, ux |-> 2, uy |-> 0, ud |-> 0, ua |-> 2]),
       quarters([up |-> 2, us |-> 0, ux |-> 3, uy |-> 2, ud |-> 0, ua |-> 1]),
       quarters([up |-> 3, us |-> 2, ux |-> 1, uy |-> 3, ud |-> 0, ua |-> 3]) >>

\* INITIAL_CONFIG of App, with the counts and rates a short run can cover
BaseConfig ==
    [particleCount |-> 2, gravity |-> (15 * Unit) \div 100, friction |-> 96,
     spread |-> 8 * Unit, decayRate |-> (4 * Unit) \div 10, hueVariance |-> 30,
     baseSize |-> 2 * Unit, trailEffect |-> TRUE,
     starfield |-> FALSE, showConstellations |-> FALSE]

\* the config props of the firework runs: the starfield is off
FireConfigs ==
    {BaseConfig,
     [BaseConfig EXCEPT !.particleCount = 1, !.decayRate = (3 * Unit) \div 10],
     [BaseConfig EXCEPT !.particleCount = 0]}

\* the config props of the starfield runs: every combination of the two flags
SkyConfigs ==
    {[BaseConfig EXCEPT !.starfield = sf, !.showConstellations = sc] :
        sf \in BOOLEAN, sc \in BOOLEAN}

\* the config props of the lifecycle runs: they differ in the flags, in the
\* burst and in the physics
LifeConfigs ==
    {BaseConfig,
     [BaseConfig EXCEPT !.trailEffect = FALSE, !.starfield = TRUE,
                        !.showConstellations = TRUE, !.particleCount = 1,
                        !.spread = 4 * Unit, !.baseSize = 3 * Unit,
                        !.decayRate = (6 * Unit) \div 10,
                        !.gravity = (25 * Unit) \div 100, !.friction = 90],
     [BaseConfig EXCEPT !.starfield = TRUE, !.particleCount = 0]}

\* config props outside the ranges of the sliders: no or a negative particle
\* count, no spread, no friction, a negative base size
DegenerateConfigs ==
    {[BaseConfig EXCEPT !.particleCount = 0],
     [BaseConfig EXCEPT !.particleCount = -1],
     [BaseConfig EXCEPT !.spread = 0],
     [BaseConfig EXCEPT !.friction = 0],
     [BaseConfig EXCEPT !.baseSize = -5 * Unit]}

\* A mount: the device pixel ratio, the sizes the container may have, the
\* config prop, whether getContext('2d') gives a context, the draws of
\* Math.random() in the run, and the ticks the sky has been through.
Mount ==
    [dpr |-> 1, rects |-> Rects, config |-> BaseConfig, hasCtx |-> TRUE,
     bursts |-> BurstDraws, trails |-> TrailDraws, ticks |-> 0]

\* the draws with which the rocket loop emits no trail particle
QuietTrails == {d \in TrailDraws : ~trailEmits(d)}

\* the mounts of the firework runs: the full burst on a ratio of 1, the
\* smaller ones on either ratio
FireMounts ==
    {[Mount EXCEPT !.dpr = r, !.config = c] : r \in Dprs, c \in FireConfigs}
        \ {[Mount EXCEPT !.dpr = 2]}

\* ticks with both flags set after which the first constellation of the seed
\* (first vertex at x = 0, vx = -0.15 * 0.1) is two ticks short of x = -PatternWidth
LongRun == (PatternWidth * Unit) \div ((15 * (Unit \div 10)) \div 100) - 2

\* the mounts of the starfield runs: the sky as it is created, and as LongRun
\* ticks with both flags set leave it
SkyMounts ==
    {[Mount EXCEPT !.dpr = r, !.config = c, !.ticks = n] :
        r \in Dprs, c \in SkyConfigs, n \in {0, LongRun}}

\* the config props of the drawing runs: every combination of the three flags
DrawConfigs ==
    {[BaseConfig EXCEPT !.trailEffect = te, !.starfield = sf,
                        !.showConstellations = sc] :
        te \in BOOLEAN, sf \in BOOLEAN, sc \in BOOLEAN}

\* the mounts of the drawing runs
DrawMounts ==
    {[Mount EXCEPT !.config = c, !.trails = QuietTrails] : c \in DrawConfigs}

\* the mounts of the lifecycle runs: getContext('2d') gives a context or null
\* and the rocket loop draws no trail particle
LifeMounts ==
    {[Mount EXCEPT !.hasCtx = h, !.trails = QuietTrails] : h \in BOOLEAN}

\* The burst scenario: the config prop, a container the point (400, 300) lies
\* in, with its bottom edge one rocket step below it, and the point.
ScenarioConfig ==
    [particleCount |-> 100, gravity |-> (15 * Unit) \div 100, friction |-> 96,
     spread |-> 8 * Unit, decayRate |-> (15 * Unit) \div 1000, hueVariance |-> 30,
     baseSize |-> 2 * Unit, trailEffect |-> TRUE,
     starfield |-> FALSE, showConstellations |-> FALSE]

ScenarioRects == {[width |-> 800, height |-> 312]}

ScenarioPoint == [x |-> 400 * Unit, y |-> 300 * Unit]

\* draws of its launchRocket: hue 0, speed 12, no wobble
ScenarioLaunchDraws == quarters([uh |-> 0, us |-> 0, uv |-> 2])

\* Draws of its createFirework iterations: the angle goes through the eight
\* eighths of the turn; the speed draw is the largest one, 1 - 1/RandDen, in
\* the first round and 1/2 in the second; size and decay alternate.
ScenarioDraws ==
    array([i \in 1 .. 16 |->
              [ua |-> ((i - 1) % 8) * (RandDen \div 8),
               us |-> IF i <= 8 THEN RandDen - 1 ELSE RandDen \div 2,
               uh |-> (i % 4) * (RandDen \div 4),
               uz |-> (i % 2) * (RandDen \div 2),
               ud |-> (2 + (i % 2)) * (RandDen \div 4)]])

ScenarioMounts ==
    {[Mount EXCEPT !.rects = ScenarioRects, !.config = ScenarioConfig,
                   !.bursts = ScenarioDraws]}

\* the mounts of the runs that follow the rockets: either ratio, bursts of one
\* particle or none, no trail particle
RocketMounts ==
    {[Mount EXCEPT !.dpr = r, !.config = [BaseConfig EXCEPT !.particleCount = n],
                   !.trails = QuietTrails] : r \in Dprs, n \in 0 .. 1}

\* the mounts of the input runs: bursts of no particle, no trail particle
InputMounts ==
    {[Mount EXCEPT !.config = [BaseConfig EXCEPT !.particleCount = 0],
                   !.trails = QuietTrails]}

\* the mounts of the runs with a degenerate config prop
DegenerateMounts ==
    {[Mount EXCEPT !.config = c, !.trails = QuietTrails] : c \in DegenerateConfigs}

----------------------------------------------------------------------------
(* Mount *)

\* handleResize: the canvas after canvas.width = width * dpr, height likewise
resizedCanvas(c, r, ratio) ==
    [c EXCEPT !.width = r.width * ratio, !.height = r.height * ratio]

\* the 2D context as a canvas gives it out, and as setting canvas.width or
\* canvas.height resets it
freshContext == [globalCompositeOperation |-> "source-over", globalAlpha |-> Unit]

\* the objects of a pool are those that run g of handleResize created
created(pool, g) == array([i \in 1 .. Len(pool) |-> pool[i] @@ [gen |-> g]])

InitWith(mounts) ==
    /\ particles = <<>>
    /\ rockets = <<>>
    /\ \E m \in mounts : \E r \in m.rects :
          \E sky \in {skyAfterTicks(
                         [stars |-> created(initStars(r.width, r.height, StarSeed), 0),
                          constellations |->
                             created(initConstellations(r.width, r.height,
                                                        ConstellationSeed), 0)],
                         m.ticks, r.width * Unit, r.height * Unit)} :
             /\ rect = r
             /\ dpr = m.dpr
             /\ config = m.config
             /\ trailSource = m.trails
             /\ burstSource = m.bursts
             /\ canvas = resizedCanvas([present |-> TRUE, hasCtx |-> m.hasCtx,
                                        width |-> 300, height |-> 150], r, m.dpr)
             /\ stars = sky.stars
             /\ constellations = sky.constellations
    /\ ctx = freshContext
    /\ resizes = 0
    /\ changes = 0
    /\ frame = <<>>
    /\ animationFrameRef = 0
    /\ pending = <<>>
    /\ mounted = TRUE
    /\ isInteractionActive = FALSE
    /\ lastLaunchTime = 0
    /\ now = StartTime
    /\ inputs = <<>>
    /\ loopStarted = FALSE
    /\ lastOp = "mount"
    /\ rendered = config
    /\ req = [x |-> 0, y |-> 0]
    /\ launched = 0
    /\ detonated = 0
    /\ bursts = <<>>
    /\ passStart = <<>>
    /\ removedRockets = <<>>
    /\ removedParticles = <<>>
    /\ emitted = <<>>
    /\ skyBefore = <<stars, constellations>>
    /\ skyAge = 0

Init == InitWith(FireMounts)

----------------------------------------------------------------------------
(* Handlers *)

\* handleInteraction -> launchRocket, for a request at the surface-local point
\* P; d holds the draws of launchRocket
handleInteraction(P, d, max) ==
    /\ mounted /\ loopStarted
    /\ launched < max
    /\ rockets' = launchRocket(P.x, P.y, d)
    /\ req' = P
    /\ lastOp' = IF canvas.present THEN "launch" ELSE "launch-noop"
    /\ launched' = IF canvas.present THEN launched + 1 ELSE launched
    /\ UNCHANGED <<canvas, dpr, rect, config, trailSource, burstSource, particles, stars,
                   constellations,
                   animationFrameRef, pending, mounted, loopStarted, resizes,
                   changes, detonated, bursts, passStart, removedRockets, removedParticles,
                   emitted, skyBefore, skyAge, ctx, frame, rendered>>

\* an entry of the event history: the kind of the event, Date.now() at the
\* event, and whether its handler called handleInteraction
event(kind, issued) == [kind |-> kind, at |-> now, issued |-> issued]

\* a handler that returns without a spawn request
noRequest(kind) ==
    /\ mounted /\ loopStarted
    /\ inputs' = Append(inputs, event(kind, FALSE))
    /\ lastOp' = "input"
    /\ UNCHANGED <<canvas, dpr, rect, config, trailSource, burstSource, particles,
                   stars, rockets, constellations, ctx, animationFrameRef, pending,
                   mounted, lastLaunchTime, now, loopStarted, rendered, req,
                   launched, resizes, changes, detonated, bursts, passStart,
                   removedRockets, removedParticles, emitted, skyBefore, skyAge,
                   frame>>

\* handleMouseDown
handleMouseDown(P, d, max) ==
    /\ isInteractionActive' = TRUE
    /\ handleInteraction(P, d, max)
    /\ lastLaunchTime' = now
    /\ inputs' = Append(inputs, event("down", TRUE))
    /\ UNCHANGED now

\* the move handler without the test of isInteractionActive
handleMouseMove_always(P, d, max) ==
    IF now - lastLaunchTime > ThrottleMs
    THEN /\ handleInteraction(P, d, max)
         /\ lastLaunchTime' = now
         /\ inputs' = Append(inputs, event("move", TRUE))
         /\ UNCHANGED <<isInteractionActive, now>>
    ELSE /\ noRequest("move")
         /\ UNCHANGED isInteractionActive

\* handleMouseMove
handleMouseMove(P, d, max) ==
    IF ~isInteractionActive
    THEN /\ noRequest("move")
         /\ UNCHANGED isInteractionActive
    ELSE IF now - lastLaunchTime > ThrottleMs
    THEN /\ handleInteraction(P, d, max)
         /\ lastLaunchTime' = now
         /\ inputs' = Append(inputs, event("move", TRUE))
         /\ UNCHANGED <<isInteractionActive, now>>
    ELSE /\ noRequest("move")
         /\ UNCHANGED isInteractionActive

\* handleMouseUp, the handler of mouseup, mouseleave and touchend
handleMouseUp ==
    /\ isInteractionActive' = FALSE
    /\ noRequest("up")

\* handleTouchStart, for the touch e.touches[0] at P
handleTouchStart(P, d, max) ==
    /\ isInteractionActive' = TRUE
    /\ handleInteraction(P, d, max)
    /\ lastLaunchTime' = now
    /\ inputs' = Append(inputs, event("down", TRUE))
    /\ UNCHANGED now

\* handleTouchMove, for the touch e.touches[0] at P
handleTouchMove(P, d, max) ==
    IF ~isInteractionActive
    THEN /\ noRequest("move")
         /\ UNCHANGED isInteractionActive
    ELSE IF now - lastLaunchTime > ThrottleMs
    THEN /\ handleInteraction(P, d, max)
         /\ lastLaunchTime' = now
         /\ inputs' = Append(inputs, event("move", TRUE))
         /\ UNCHANGED <<isInteractionActive, now>>
    ELSE /\ noRequest("move")
         /\ UNCHANGED isInteractionActive

\* a spawn request at one of the points ks
LaunchAt(ks, max) ==
    /\ \E k \in ks : handleInteraction(Points[k], LaunchDraws[k], max)
    /\ UNCHANGED inputState

Launch == LaunchAt(DOMAIN Points, MaxLaunches)

\* the spawn request of the burst scenario
LaunchScenario ==
    /\ handleInteraction(ScenarioPoint, ScenarioLaunchDraws, MaxSpawns)
    /\ UNCHANGED inputState

\* the events of the input runs: a press at the first point, a move to the second
MouseDown ==
    /\ Len(inputs) < MaxInputs
    /\ handleMouseDown(Points[1], LaunchDraws[1], MaxInputs)

MouseMove ==
    /\ Len(inputs) < MaxInputs
    /\ handleMouseMove(Points[2], LaunchDraws[2], MaxInputs)

MouseUp ==
    /\ Len(inputs) < MaxInputs
    /\ handleMouseUp

TouchStart ==
    /\ Len(inputs) < MaxInputs
    /\ handleTouchStart(Points[1], LaunchDraws[1], MaxInputs)

TouchMove ==
    /\ Len(inputs) < MaxInputs
    /\ handleTouchMove(Points[2], LaunchDraws[2], MaxInputs)

\* time passes between two events
TimePasses ==
    /\ mounted /\ loopStarted
    /\ \E d \in Delays :
          /\ now + d <= StartTime + MaxClock
          /\ now' = now + d
    /\ lastOp' = "time"
    /\ UNCHANGED <<canvas, dpr, rect, config, trailSource, burstSource, particles,
                   stars, rockets, constellations, ctx, animationFrameRef, pending,
                   mounted, isInteractionActive, lastLaunchTime, inputs, loopStarted,
                   rendered, req, launched, resizes, changes, detonated, bursts,
                   passStart, removedRockets, removedParticles, emitted, skyBefore,
                   skyAge, frame>>

\* a spawn request at the first of the points
LaunchFirst == LaunchAt({1}, MaxSpawns)

\* indices of the rockets that reach their target in the coming rocket pass
Detonating == {i \in 1 .. Len(rockets) : reachedTarget(moveRocket(rockets[i]))}

IsTrail(p) == p.color[2] = 80

TrailsAlive == Cardinality({i \in 1 .. Len(particles) : IsTrail(particles[i])})

\* the pool as a tick finds it: no particle in it is new to this tick
Aged(ps) == array([i \in 1 .. Len(ps) |-> [ps[i] EXCEPT !.fresh = FALSE]])

\* render, closed over the config prop cfg: one tick; q holds the frame
\* callbacks that are pending when it is called
render(cfg, q) ==
    /\ cfg.starfield => skyAge < MaxSkyAge
    /\ rendered' = cfg
    /\ IF ~canvas.present \/ ~canvas.hasCtx
       THEN /\ lastOp' = "tick-noop"
            /\ pending' = q
            /\ frame' = <<>>
            /\ UNCHANGED <<particles, stars, rockets, constellations, detonated,
                           bursts, passStart, removedRockets, removedParticles,
                           emitted,
                           skyBefore, skyAge, animationFrameRef, ctx>>
       ELSE \E trail \in [1 .. Len(rockets) -> trailSource],
               twinkle \in TwinkleRuns(IF cfg.starfield THEN Len(stars) ELSE 0),
               burst \in [Detonating ->
                             BurstRuns(burstSource,
                                       burstLoopCount(cfg.particleCount))] :
               /\ TrailsAlive
                    + Cardinality({i \in 1 .. Len(rockets) : trailEmits(trail[i])})
                    <= MaxTrails
               /\ \E rp \in {rocketPass(rockets, Aged(particles), cfg, trail, burst)} :
                  \E pp \in {particlePass(rp.particles, cfg)} :
                  \E fr \in {drawFrame(cfg, ctx, stars, constellations, twinkle,
                                       Len(rockets), pp.drawn, pp.thrown)} :
                     /\ ctx' = fr.ctx
                     /\ frame' = fr.draws
                     /\ stars' = starsAfter(cfg)
                     /\ constellations' = constellationsAfter(cfg)
                     /\ rockets' = rp.rockets
                     /\ particles' = pp.particles
                     /\ bursts' = rp.bursts
                     /\ passStart' = rp.particles
                     /\ removedRockets' = rp.removed
                     /\ emitted' = rp.emitted
                     /\ removedParticles' = pp.removed
                     /\ detonated' = detonated + Len(rp.removed)
                     /\ skyBefore' = <<stars, constellations>>
                     /\ skyAge' = IF cfg.starfield THEN skyAge + 1 ELSE skyAge
                     /\ IF pp.thrown # <<>>
                        THEN /\ pending' = q
                             /\ UNCHANGED animationFrameRef
                             /\ lastOp' = "tick-failed"
                        ELSE /\ pending' = requestAnimationFrame(q, cfg)
                             /\ animationFrameRef' = requestId(q)
                             /\ lastOp' = "tick"
    /\ req' = [x |-> 0, y |-> 0]

\* the loop effect on mount: cancel what the ref names, then call render()
StartLoop ==
    /\ mounted /\ ~loopStarted
    /\ loopStarted' = TRUE
    /\ render(config, cancelLoop(pending, animationFrameRef))
    /\ UNCHANGED <<canvas, dpr, rect, config, trailSource, burstSource, inputState, mounted, launched,
                   resizes, changes>>

\* the browser runs the oldest pending frame callback: the render closure that
\* requestAnimationFrame(render) was given
Tick ==
    /\ pending # <<>>
    /\ render(Head(pending).cfg, Tail(pending))
    /\ UNCHANGED <<canvas, dpr, rect, config, trailSource, burstSource, inputState, mounted, loopStarted,
                   launched,
                   resizes, changes>>

\* a cleanup that cancels nothing
loopCleanup_none(q, ref) == q

\* the cleanup of the loop effect
loopCleanup(q, ref) == cancelLoop(q, ref)

\* the loop effect with neither the cleanup nor the body cancelling anything
loopEffect_noCancel(cfg) == render(cfg, pending)

\* the loop effect when render changed: the cleanup of the previous run, then
\* the body with the new render closure
loopEffect(cfg) ==
    render(cfg, cancelLoop(loopCleanup(pending, animationFrameRef), animationFrameRef))

\* a new config prop with render not rebuilt: the loop goes on with the
\* closure it has
reconfigure_stale(c) ==
    /\ c # config
    /\ config' = c
    /\ lastOp' = "tick-skipped"
    /\ UNCHANGED <<canvas, dpr, rect, trailSource, burstSource, inputState, mounted, loopStarted, launched,
                   resizes, particles, stars, rockets, constellations, ctx,
                   animationFrameRef, pending, rendered, req, detonated, bursts, passStart,
                   removedRockets, removedParticles, emitted, skyBefore, skyAge,
                   frame>>

\* A new config prop c: render is rebuilt (useCallback on [config, createFirework])
\* and the loop effect, which depends on [render], runs again.
reconfigure(c) ==
    /\ c # config
    /\ config' = c
    /\ loopEffect(c)
    /\ UNCHANGED <<canvas, dpr, rect, trailSource, burstSource, inputState, mounted, loopStarted, launched,
                   resizes>>

ConfigChange ==
    /\ mounted /\ loopStarted
    /\ \E c \in SkyConfigs : reconfigure(c)
    /\ UNCHANGED changes

Reconfigure ==
    /\ mounted /\ loopStarted
    /\ changes < MaxChanges
    /\ changes' = changes + 1
    /\ \E c \in LifeConfigs : reconfigure(c)

\* handleResize with the new stars and constellations pushed to the pools
handleResize_append(r) ==
    IF ~canvas.present
    THEN UNCHANGED <<canvas, rect, stars, constellations, ctx, resizes>>
    ELSE /\ rect' = r
         /\ canvas' = resizedCanvas(canvas, r, dpr)
         /\ ctx' = freshContext
         /\ stars' = stars
                        \o created(initStars(r.width, r.height, StarSeed), resizes + 1)
         /\ constellations' =
               constellations
                  \o created(initConstellations(r.width, r.height, ConstellationSeed),
                             resizes + 1)
         /\ resizes' = resizes + 1

\* handleResize, on a resize event of the window: r is the size of the container
handleResize(r) ==
    IF ~canvas.present
    THEN UNCHANGED <<canvas, rect, stars, constellations, ctx, resizes>>
    ELSE /\ rect' = r
         /\ canvas' = resizedCanvas(canvas, r, dpr)
         /\ ctx' = freshContext
         /\ stars' = created(initStars(r.width, r.height, StarSeed), resizes + 1)
         /\ constellations' =
               created(initConstellations(r.width, r.height, ConstellationSeed),
                       resizes + 1)
         /\ resizes' = resizes + 1

Resize ==
    /\ mounted /\ loopStarted
    /\ resizes < MaxResizes
    /\ \E r \in ResizeRects : handleResize(r)
    /\ lastOp' = "resize"
    /\ UNCHANGED <<dpr, config, trailSource, burstSource, inputState, particles, rockets, animationFrameRef,
                   pending,
                   mounted, loopStarted, req, launched, changes, detonated, bursts, passStart,
                   removedRockets, removedParticles, emitted, skyBefore, skyAge,
                   frame, rendered>>

\* the component is removed: the effects are cleaned up and the refs cleared
Unmount ==
    /\ mounted /\ loopStarted
    /\ mounted' = FALSE
    /\ pending' = loopCleanup(pending, animationFrameRef)
    /\ canvas' = [canvas EXCEPT !.present = FALSE]
    /\ lastOp' = "unmount"
    /\ UNCHANGED <<dpr, rect, config, trailSource, burstSource, inputState, particles, stars, rockets,
                   constellations,
                   ctx, animationFrameRef, loopStarted, req, launched, resizes,
                   changes, detonated, bursts, passStart, removedRockets, removedParticles, emitted,
                   skyBefore, skyAge, frame, rendered>>

Next == StartLoop \/ Launch \/ Tick

Spec == Init /\ [][Next]_vars

InitSky == InitWith(SkyMounts)

NextSky == StartLoop \/ Tick \/ ConfigChange

SpecSky == InitSky /\ [][NextSky]_vars

InitLife == InitWith(LifeMounts)

NextLife == StartLoop \/ LaunchFirst \/ Tick \/ Reconfigure \/ Resize \/ Unmount

SpecLife == InitLife /\ [][NextLife]_vars

InitDraw == InitWith(DrawMounts)

NextDraw == StartLoop \/ LaunchFirst \/ Tick \/ Resize

SpecDraw == InitDraw /\ [][NextDraw]_vars

InitDegenerate == InitWith(DegenerateMounts)

NextDegenerate == StartLoop \/ Launch \/ Tick

SpecDegenerate == InitDegenerate /\ [][NextDegenerate]_vars

InitScenario == InitWith(ScenarioMounts)

NextScenario == StartLoop \/ LaunchScenario \/ Tick

SpecScenario == InitScenario /\ [][NextScenario]_vars

InitRockets == InitWith(RocketMounts)

NextRockets == StartLoop \/ Launch \/ Tick

\* The loop effect runs after the mount, and the browser keeps running the
\* pending frame callback.
SpecRockets ==
    InitRockets /\ [][NextRockets]_vars /\ WF_vars(StartLoop) /\ WF_vars(Tick)

InitInput == InitWith(InputMounts)

NextInput ==
    \/ StartLoop \/ Tick \/ TimePasses
    \/ MouseDown \/ MouseMove \/ MouseUp \/ TouchStart \/ TouchMove

SpecInput == InitInput /\ [][NextInput]_vars

----------------------------------------------------------------------------
(* Properties *)

SeqToSet(q) == {q[i] : i \in 1 .. Len(q)}

\* C1: a burst with particleCount = N >= 0 appends exactly N particles to the
\* particle pool, each with alpha = 1 and at the burst origin, and leaves the
\* particles that were already in the pool as they were.
C1_BurstSize ==
    \A k \in 1 .. Len(bursts) :
        LET b == bursts[k]
            n == Len(b.pre)
        IN  b.count >= 0 =>
               /\ Len(b.post) = n + b.count
               /\ SubSeq(b.post, 1, n) = b.pre
               /\ \A j \in (n + 1) .. Len(b.post) :
                     /\ b.post[j].alpha = Unit
                     /\ b.post[j].x = b.x
                     /\ b.post[j].y = b.y

C1_Witness ==
    \E k \in 1 .. Len(bursts) : bursts[k].count = 2 /\ Len(bursts[k].pre) >= 1

\* ticks until a rocket that moves by the rocket pass's rule meets its
\* termination test, counted from spawn
RECURSIVE ticksToDetonate(_)
ticksToDetonate(rocket) ==
    IF reachedTarget(moveRocket(rocket)) THEN 1
    ELSE 1 + ticksToDetonate(moveRocket(rocket))

\* C2: a rocket with start height y0, target T < y0 and constant vy < 0 is
\* removed on exactly tick ceil((y0 - T) / |vy|) after spawn and on no earlier
\* tick; the rocket y = 600, targetY = 300, vy = -15 detonates on tick 20.
C2_Handoff ==
    /\ \A i \in 1 .. Len(rockets) :
          LET r == rockets[i]
          IN  r.targetY < r.y0 =>
                 /\ r.vy < 0
                 /\ r.y = r.y0 + r.age * r.vy
                 /\ r.age < CeilDiv(r.y0 - r.targetY, -r.vy)
    /\ \A k \in 1 .. Len(removedRockets) :
          LET r == removedRockets[k]
          IN  r.targetY < r.y0 => r.age = CeilDiv(r.y0 - r.targetY, -r.vy)
    /\ ticksToDetonate([x |-> 0, y |-> 600 * Unit, targetY |-> 300 * Unit,
                        vx |-> 0, vy |-> -15 * Unit, hue |-> 0, trailTimer |-> 0,
                        y0 |-> 600 * Unit, age |-> 0]) = 20

C2_Witness ==
    \E k \in 1 .. Len(removedRockets) :
        LET r == removedRockets[k]
        IN  /\ r.targetY < r.y0
            /\ r.age >= 3
            /\ (r.y0 - r.targetY) % (-r.vy) # 0

\* C3: in the tick in which a rocket's y first becomes <= targetY one burst is
\* created for it, with its hue, at (x, targetY), and it is removed in that
\* tick; bursts and removals correspond one to one, and after a tick no
\* rocket with y <= targetY is left in the pool.
C3_Detonation ==
    /\ Len(bursts) = Len(removedRockets)
    /\ \A k \in 1 .. Len(removedRockets) :
          LET r == removedRockets[k]
              b == bursts[k]
          IN  /\ r.y <= r.targetY
              /\ r.age = 1 \/ r.y - r.vy > r.targetY
              /\ b.hue = r.hue
              /\ b.x = r.x
              /\ b.y = r.targetY
    /\ lastOp = "tick" => \A i \in 1 .. Len(rockets) : rockets[i].y > rockets[i].targetY

C3_Witness ==
    /\ lastOp = "tick"
    /\ Len(removedRockets) >= 1
    /\ Len(rockets) >= 1

\* C4: a spawn request with the surface available appends exactly one rocket
\* and leaves the rockets already there, the particles, the stars and the
\* constellations unchanged.
C4_LaunchFrame ==
    [][lastOp' = "launch" =>
         /\ Len(rockets') = Len(rockets) + 1
         /\ SubSeq(rockets', 1, Len(rockets)) = rockets
         /\ particles' = particles
         /\ stars' = stars
         /\ constellations' = constellations]_vars

C4_Witness ==
    /\ lastOp = "launch"
    /\ Len(rockets) = 2
    /\ Len(particles) >= 1

\* C5: the rocket of a spawn request at P has x = P.x, targetY = P.y, vy in
\* [-15, -12] and start y equal to the surface height in the logical
\* coordinate space of P, for every device scale factor.
C5_SpawnGeometry ==
    lastOp = "launch" =>
        LET r == rockets[Len(rockets)]
        IN  /\ r.x = req.x
            /\ r.targetY = req.y
            /\ r.vy >= -15 * Unit
            /\ r.vy <= -12 * Unit
            /\ r.y = rect.height * Unit

\* C6: no rocket is lost or duplicated: the rockets in the pool plus the
\* detonations so far equal the accepted spawn requests.
C6_Conservation == Len(rockets) + detonated = launched

C6_Witness ==
    /\ lastOp = "tick"
    /\ launched = 2
    /\ detonated = 1
    /\ Len(rockets) = 1

C8_AlphaRange ==
    /\ \A i \in 1 .. Len(particles) :
          LET p == particles[i]
          IN  /\ 0 < p.alpha
              /\ p.alpha <= Unit
              /\ p.alpha <= p.prev
    /\ \A k \in 1 .. Len(removedParticles) :
          LET p == removedParticles[k]
          IN  /\ p.alpha <= 0
              /\ p.prev > 0
              /\ p.alpha <= p.prev

C8_Witness ==
    /\ Len(removedParticles) >= 1
    /\ \E i \in 1 .. Len(particles) : particles[i].steps >= 3

FreshTrails == {i \in 1 .. Len(particles) : particles[i].fresh /\ IsTrail(particles[i])}

\* C9 as stated: a trail particle emitted during tick t is not integrated
\* during tick t; at the end of tick t it still has the position, velocity and
\* alpha it was created with.
C9_TrailNextFrame ==
    lastOp = "tick" =>
        \A i \in FreshTrails :
            LET p == particles[i]
            IN  /\ p.steps = 0
                /\ p.alpha = p.born.alpha
                /\ p.x = p.born.x /\ p.y = p.born.y
                /\ p.vx = p.born.vx /\ p.vy = p.born.vy

\* C9 as amended: a trail particle emitted during tick t is integrated once in
\* tick t itself, by the particle pass that follows the rocket pass; at the
\* end of tick t it is in the pool, one integration step from the values it
\* was created with.
C9_TrailSameFrame ==
    lastOp = "tick" =>
        /\ Cardinality(FreshTrails) = Len(emitted)
        /\ \A i \in FreshTrails :
              LET p == particles[i]
              IN  /\ p.steps = 1
                  /\ p.born \in {[x |-> e.x, y |-> e.y, vx |-> e.vx, vy |-> e.vy,
                                  alpha |-> e.alpha] : e \in SeqToSet(emitted)}
                  /\ p.alpha = p.born.alpha - p.decay
                  /\ p.vx = MulFriction(p.born.vx, config.friction)
                  /\ p.vy = MulFriction(p.born.vy, config.friction) + config.gravity
                  /\ p.x = p.born.x + p.vx
                  /\ p.y = p.born.y + p.vy
        /\ \A i \in 1 .. Len(particles) :
              (IsTrail(particles[i]) /\ ~particles[i].fresh) => particles[i].steps >= 2

C9_Witness ==
    /\ lastOp = "tick"
    /\ FreshTrails # {}
    /\ Len(rockets) >= 1

\* the per-axis result of a star update: the drifted coordinate when it is
\* inside [0, limit], and otherwise the opposite edge
StarAxis(after, from, v, limit) ==
    IF from + v < 0 THEN after = limit
    ELSE IF from + v > limit THEN after = 0
    ELSE after = from + v

\* C10 as stated: every tick advances every star by its (vx, vy) and every
\* constellation point by the constellation's (vx, vy), whatever the
\* starfield and showConstellations flags are.
C10_SkyAlwaysAdvances ==
    lastOp = "tick" =>
        /\ \A i \in 1 .. Len(stars) :
              /\ stars[i].x = skyBefore[1][i].x + skyBefore[1][i].vx
              /\ stars[i].y = skyBefore[1][i].y + skyBefore[1][i].vy
        /\ \A j \in 1 .. Len(constellations) :
              \A k \in 1 .. Len(constellations[j].stars) :
                 /\ constellations[j].stars[k].x
                       = skyBefore[2][j].stars[k].x + skyBefore[2][j].vx
                 /\ constellations[j].stars[k].y
                       = skyBefore[2][j].stars[k].y + skyBefore[2][j].vy

\* C10 as amended: a tick moves the stars only when starfield is set, each by
\* its (vx, vy) followed by the edge wrap, and the constellations only when
\* starfield and showConstellations are both set, each point by the
\* constellation's (vx, vy) followed by the unit wrap; otherwise the tick
\* leaves the pool as it was.
C10_SkyAdvancesWhenDrawn ==
    lastOp = "tick" =>
        /\ Len(stars) = Len(skyBefore[1])
        /\ Len(constellations) = Len(skyBefore[2])
        /\ \A i \in 1 .. Len(stars) :
              LET b == skyBefore[1][i]
              IN  IF config.starfield
                  THEN /\ StarAxis(stars[i].x, b.x, b.vx, rect.width * Unit)
                       /\ StarAxis(stars[i].y, b.y, b.vy, rect.height * Unit)
                       /\ [stars[i] EXCEPT !.x = 0, !.y = 0] = [b EXCEPT !.x = 0, !.y = 0]
                  ELSE stars[i] = b
        /\ \A j \in 1 .. Len(constellations) :
              LET b == skyBefore[2][j]
                  c == constellations[j]
                  shift == (rect.width + 2 * PatternWidth) * Unit
              IN  IF config.starfield /\ config.showConstellations
                  THEN /\ Len(c.stars) = Len(b.stars)
                       /\ \/ \A k \in 1 .. Len(c.stars) :
                                c.stars[k].x = b.stars[k].x + b.vx
                          \/ \A k \in 1 .. Len(c.stars) :
                                c.stars[k].x = b.stars[k].x + b.vx + shift
                       /\ \A k \in 1 .. Len(c.stars) :
                             c.stars[k].y = b.stars[k].y + b.vy
                  ELSE c = b

C10_Witness ==
    /\ lastOp = "tick"
    /\ skyAge >= 2
    /\ config.starfield
    /\ ~config.showConstellations
    /\ stars # skyBefore[1]
    /\ constellations = skyBefore[2]

\* stars on and beyond each edge, drifting either way on each axis
StarCases ==
    {[x |-> x, y |-> y, vx |-> vx, vy |-> vy] :
        x \in {-Unit, 0, 150 * Unit, 300 * Unit, 301 * Unit},
        y \in {-Unit, 0, 10 * Unit, 20 * Unit, 21 * Unit},
        vx \in {-(Unit \div 5), Unit \div 5},
        vy \in {-(Unit \div 50), Unit \div 50}}

\* C11: the star wrap is toroidal and per axis: after a star update a star
\* whose x became < 0 has x = width, one whose x became > width has x = 0,
\* one whose y became < 0 has y = height, one whose y became > height has
\* y = 0, and one whose updated position is inside the bounds is where the
\* drift put it; a star at x = -1 with vx < 0 has x = width after the update.
C11_StarWrap ==
    /\ (lastOp = "tick" /\ rendered.starfield) =>
          \A i \in 1 .. Len(stars) :
              LET b == skyBefore[1][i]
                  W == rect.width * Unit
                  H == rect.height * Unit
              IN  /\ b.x + b.vx < 0 => stars[i].x = W
                  /\ b.x + b.vx > W => stars[i].x = 0
                  /\ b.y + b.vy < 0 => stars[i].y = H
                  /\ b.y + b.vy > H => stars[i].y = 0
                  /\ (b.x + b.vx >= 0 /\ b.x + b.vx <= W) => stars[i].x = b.x + b.vx
                  /\ (b.y + b.vy >= 0 /\ b.y + b.vy <= H) => stars[i].y = b.y + b.vy
    /\ \A b \in StarCases :
          LET W == 300 * Unit
              H == 20 * Unit
              a == updateStar(b, W, H)
          IN  /\ StarAxis(a.x, b.x, b.vx, W)
              /\ StarAxis(a.y, b.y, b.vy, H)
              /\ (b.x = -Unit /\ b.vx < 0) => a.x = W
              /\ a.vx = b.vx /\ a.vy = b.vy

C11_Witness ==
    /\ lastOp = "tick"
    /\ rendered.starfield
    /\ \E i, j \in 1 .. Len(stars) :
          /\ skyBefore[1][i].x + skyBefore[1][i].vx < 0
          /\ stars[i].x = rect.width * Unit
          /\ stars[j].x = skyBefore[1][j].x + skyBefore[1][j].vx
          /\ stars[j].y = skyBefore[1][j].y + skyBefore[1][j].vy

\* C12: between two resizes, after any sequence of ticks, spawn requests and
\* configuration changes, the star pool has floor(width * height / 3000)
\* stars for the size of the last resize, there are 4 constellations, each
\* with its point count (at least 2) unchanged; a step that is not a resize
\* adds or removes no star, constellation or point, and every object in the
\* pools is one the last resize created.
C12_PoolsFixed ==
    /\ [](/\ Len(stars) = (rect.width * rect.height) \div StarArea
          /\ Len(constellations) = ConstellationCount
          /\ \A j \in 1 .. Len(constellations) : Len(constellations[j].stars) >= 2
          /\ \A i \in 1 .. Len(stars) : stars[i].gen = resizes
          /\ \A j \in 1 .. Len(constellations) : constellations[j].gen = resizes)
    /\ [][lastOp' # "resize" =>
            /\ Len(stars') = Len(stars)
            /\ Len(constellations') = Len(constellations)
            /\ \A j \in 1 .. Len(constellations) :
                  Len(constellations'[j].stars) = Len(constellations[j].stars)]_vars

C12_Witness ==
    /\ resizes >= 1
    /\ changes >= 1
    /\ launched >= 1
    /\ lastOp = "tick"
    /\ rendered.starfield /\ rendered.showConstellations
    /\ Len(stars) = 1
    /\ stars # skyBefore[1]
    /\ constellations # skyBefore[2]

\* the star counts of an 800x600 and of a 1600x1200 surface
StarCounts ==
    << Len(initStars(800, 600, StarSeed)), Len(initStars(1600, 1200, StarSeed)) >>

\* C13: a resize to the logical size (w, h) replaces both background pools
\* in one step: afterwards the star pool holds floor(w * h / 3000) stars
\* (160 for 800x600, 640 for 1600x1200) and the constellation pool 4
\* constellations, all created by this resize, none of them an object of the
\* previous pools, and the rocket and particle pools are as they were.
C13_ResizeReplaces ==
    [][lastOp' = "resize" =>
          /\ Len(stars') = (rect'.width * rect'.height) \div StarArea
          /\ Len(constellations') = ConstellationCount
          /\ \A i \in 1 .. Len(stars') :
                /\ stars'[i].gen = resizes + 1
                /\ stars'[i] \notin SeqToSet(stars)
          /\ \A j \in 1 .. Len(constellations') :
                /\ constellations'[j].gen = resizes + 1
                /\ constellations'[j] \notin SeqToSet(constellations)
          /\ rockets' = rockets
          /\ particles' = particles
          /\ StarCounts = <<160, 640>>]_vars

C13_Witness ==
    /\ lastOp = "resize"
    /\ Len(stars) = 1
    /\ skyAge >= 1
    /\ stars[1].gen = 1
    /\ particles # <<>>

\* the tick that ran last updated the constellations
ConstellationsUpdated ==
    lastOp = "tick" /\ rendered.starfield /\ rendered.showConstellations

\* the constellations whose unit wrap the last tick applied
Wrapped ==
    {j \in 1 .. Len(constellations) :
        skyBefore[2][j].stars[1].x + skyBefore[2][j].vx < -(PatternWidth * Unit)}

\* C14: a constellation update, the wrap included, preserves the coordinate
\* difference between every pair of points of the constellation: all points
\* of one constellation move by the same vector within a tick.
C14_Rigid ==
    ConstellationsUpdated =>
        \A j \in 1 .. Len(constellations) :
            LET b == skyBefore[2][j].stars
                c == constellations[j].stars
            IN  /\ Len(c) = Len(b)
                /\ \A k, l \in 1 .. Len(c) :
                      /\ c[k].x - c[l].x = b[k].x - b[l].x
                      /\ c[k].y - c[l].y = b[k].y - b[l].y
                /\ \A k \in 1 .. Len(c) :
                      /\ c[k].x - b[k].x = c[1].x - b[1].x
                      /\ c[k].y - b[k].y = c[1].y - b[1].y

C14_Witness ==
    /\ ConstellationsUpdated
    /\ \E j \in Wrapped :
          /\ constellations[j].stars[1].x > skyBefore[2][j].stars[1].x
          /\ \E k \in 2 .. Len(constellations[j].stars) :
                skyBefore[2][j].stars[k].x + skyBefore[2][j].vx >= -(PatternWidth * Unit)

\* constellations whose first vertex is just right of, on and just left of
\* x = -patternWidth after the translation
WrapCases ==
    {[stars |-> << [x |-> -(PatternWidth * Unit) + 150 + dx, y |-> 5 * Unit],
                   [x |-> -(PatternWidth * Unit) + 150 + dx + 40 * Unit, y |-> 0] >>,
      vx |-> -150, vy |-> 10, alpha |-> Unit \div 10] : dx \in {-1, 0, 1}}

\* C15: in a constellation update, after the translation, every point of the
\* constellation is shifted right by surfaceWidth + 2 * patternWidth
\* (patternWidth = 200) if and only if the first vertex's x is < -patternWidth;
\* the wrap never changes a y coordinate.
C15_UnitWrap ==
    /\ ConstellationsUpdated =>
          \A j \in 1 .. Len(constellations) :
              LET b     == skyBefore[2][j]
                  c     == constellations[j]
                  shift == IF b.stars[1].x + b.vx < -(200 * Unit)
                           THEN rect.width * Unit + 2 * 200 * Unit
                           ELSE 0
              IN  \A k \in 1 .. Len(c.stars) :
                      /\ c.stars[k].x = b.stars[k].x + b.vx + shift
                      /\ c.stars[k].y = b.stars[k].y + b.vy
    /\ \A b \in WrapCases :
          LET c     == updateConstellation(b, 300 * Unit)
              shift == IF b.stars[1].x + b.vx < -(200 * Unit) THEN 700 * Unit ELSE 0
          IN  \A k \in 1 .. 2 :
                  /\ c.stars[k].x = b.stars[k].x + b.vx + shift
                  /\ c.stars[k].y = b.stars[k].y + b.vy

C15_Witness ==
    /\ ConstellationsUpdated
    /\ Wrapped # {}
    /\ Wrapped # 1 .. Len(constellations)
    /\ \A j \in Wrapped :
          constellations[j].stars[1].x
             = skyBefore[2][j].stars[1].x + skyBefore[2][j].vx
                  + (rect.width + 2 * PatternWidth) * Unit

\* the place of a layer in the order of a frame
LayerRank(layer) ==
    CASE layer = "background" -> 1
      [] layer = "stars" -> 2
      [] layer = "constellations" -> 3
      [] layer = "rockets" -> 4
      [] layer = "particles" -> 5

\* the draw calls of the last tick that belong to a layer
DrawsOf(layer) == {i \in 1 .. Len(frame) : frame[i].layer = layer}

\* C16: within every tick the draw calls come in the order background
\* clear/fade, stars, constellations, rockets, particles; every rocket and
\* particle draw is issued under 'lighter' and every background fade, star
\* and constellation draw under 'source-over', for every combination of the
\* three flags and whatever mode the tick found; stars are drawn only if
\* starfield is set and constellations only if showConstellations is set too.
C16_LayerOrder ==
    lastOp = "tick" =>
        /\ Len(frame) >= 1
        /\ DrawsOf("background") = {1}
        /\ frame[1].call = (IF rendered.trailEffect THEN "fillRect" ELSE "clearRect")
        /\ \A i, j \in 1 .. Len(frame) :
              i < j => LayerRank(frame[i].layer) <= LayerRank(frame[j].layer)
        /\ \A i \in DrawsOf("rockets") \cup DrawsOf("particles") :
              frame[i].op = "lighter"
        /\ \A i \in DrawsOf("stars") \cup DrawsOf("constellations") :
              frame[i].op = "source-over"
        /\ frame[1].call = "fillRect" => frame[1].op = "source-over"
        /\ DrawsOf("stars") # {} => rendered.starfield
        /\ DrawsOf("constellations") # {} =>
              rendered.starfield /\ rendered.showConstellations
        /\ rendered.starfield => Cardinality(DrawsOf("stars")) = Len(stars)
        /\ Cardinality(DrawsOf("particles")) = Len(particles)

C16_Witness ==
    /\ lastOp = "tick"
    /\ ~rendered.trailEffect
    /\ skyAge >= 2
    /\ DrawsOf("stars") # {}
    /\ DrawsOf("constellations") # {}
    /\ DrawsOf("rockets") # {}
    /\ DrawsOf("particles") # {}
    /\ frame[1].op = "lighter"

\* C17: constellation lines are drawn with a fixed stroke alpha and the dots
\* with a fixed, higher alpha: the opacity in force for each constellation
\* draw is the alpha of its style alone (0.15 for the lines, 0.4 for the dots)
\* in every tick, whatever the stars and their twinkle are.
C17_ConstellationAlpha ==
    lastOp = "tick" =>
        \A i \in DrawsOf("constellations") :
            /\ frame[i].globalAlpha = Unit
            /\ frame[i].style = (IF frame[i].call = "stroke" THEN 15 ELSE 40)

\* C18: stopping the simulation halts the scheduler: once the cleanup of the
\* loop effect has run, on teardown or as the first half of a
\* reconfiguration, the frame callback that was scheduled before never
\* runs; after teardown no tick runs and no frame callback is pending, and
\* while mounted the only callback pending is the one the current run of the
\* effect, or a tick since, has requested.
C18_Cancelled ==
    /\ ~mounted => (pending = <<>> /\ lastOp = "unmount")
    /\ \A k \in 1 .. Len(pending) :
          /\ pending[k].id = animationFrameRef
          /\ pending[k].cfg = rendered
    /\ Len(pending) <= 1

C18_Witness ==
    /\ ~mounted
    /\ canvas.hasCtx
    /\ animationFrameRef # 0
    /\ rockets # <<>>
    /\ changes >= 1

\* C19: a configuration change discards nothing in flight and takes effect
\* on the very next tick: every render after the change is closed over the
\* new config; a burst of a rocket that was already in flight has the new
\* particleCount and its particles stay within the new spread, decayRate and
\* baseSize; the particle integration uses the new friction and gravity; the
\* layers follow the new flags; rockets leave the pool only by detonating and
\* particles only by fading out.
C19_Reconfigured ==
    /\ [](/\ rendered = config
          /\ \A k \in 1 .. Len(pending) : pending[k].cfg = config
          /\ lastOp = "tick" =>
                /\ \A k \in 1 .. Len(bursts) :
                      bursts[k].count = burstLoopCount(config.particleCount)
                /\ \A i \in 1 .. Len(particles) :
                      LET p == particles[i]
                      IN  (p.fresh /\ ~IsTrail(p)) =>
                             /\ p.vx = MulFriction(p.born.vx, config.friction)
                             /\ p.vy = MulFriction(p.born.vy, config.friction)
                                          + config.gravity
                             /\ p.born.vx <= config.spread /\ -p.born.vx <= config.spread
                             /\ p.born.vy <= config.spread /\ -p.born.vy <= config.spread
                             /\ 2 * p.decay >= config.decayRate
                             /\ 2 * p.decay <= 3 * config.decayRate
                             /\ p.size <= Max(Unit, config.baseSize)
                /\ (DrawsOf("stars") # {}) = (config.starfield /\ stars # <<>>)
                /\ (DrawsOf("constellations") # {})
                      = (config.starfield /\ config.showConstellations)
                /\ frame[1].call = (IF config.trailEffect THEN "fillRect"
                                    ELSE "clearRect"))
    /\ [][lastOp' = "tick" =>
            /\ Len(rockets') + Len(removedRockets') = Len(rockets)
            /\ \A k \in 1 .. Len(removedRockets') :
                  removedRockets'[k].y <= removedRockets'[k].targetY
            /\ \A k \in 1 .. Len(removedParticles') : removedParticles'[k].alpha <= 0
            /\ Len(stars') = Len(stars)
            /\ Len(constellations') = Len(constellations)
            /\ (removedParticles' = <<>> /\ bursts' = <<>> /\ emitted' = <<>>) =>
                  /\ Len(particles') = Len(particles)
                  /\ \A i \in 1 .. Len(particles) :
                        /\ particles'[i].vx
                              = MulFriction(particles[i].vx, config'.friction)
                        /\ particles'[i].vy
                              = MulFriction(particles[i].vy, config'.friction)
                                   + config'.gravity]_vars

C19_Witness ==
    /\ lastOp = "tick"
    /\ changes >= 1
    /\ config.particleCount = 1
    /\ config.friction = 90
    /\ Len(bursts) = 1
    /\ bursts[1].count = 1
    /\ Len(particles) = 1
    /\ particles[1].fresh
    /\ DrawsOf("constellations") # {}

\* C20: if the drawing surface (the canvas or its 2D context) is not
\* available, a tick is a no-op and a spawn request is a no-op: neither
\* changes any of the four pools.
C20_NoSurfaceNoOp ==
    [][((~canvas.present \/ ~canvas.hasCtx)
          /\ lastOp' \in {"tick", "tick-noop", "launch", "launch-noop"})
         => pools' = pools]_vars

\* C21: degenerate config values are accepted without error: with
\* particleCount <= 0 a burst adds no particle and the detonating rocket is
\* still removed; with spread = 0 every burst particle is created with zero
\* velocity; no tick fails, and no rocket that reached its target stays in the
\* pool.
C21_Degenerate ==
    /\ lastOp # "tick-failed"
    /\ \A i \in 1 .. Len(rockets) : ~reachedTarget(rockets[i])
    /\ \A k \in 1 .. Len(bursts) :
          /\ rendered.particleCount <= 0 => bursts[k].post = bursts[k].pre
          /\ rendered.spread = 0 =>
                \A j \in Len(bursts[k].pre) + 1 .. Len(bursts[k].post) :
                    bursts[k].post[j].vx = 0 /\ bursts[k].post[j].vy = 0
    /\ Len(removedRockets) = Len(bursts)

\* the square of a number of at most 2^16 in absolute value, as hi * 10^6 + lo
Square(a) ==
    LET m    == IF a < 0 THEN -a ELSE a
        a1   == m \div 1000
        a0   == m % 1000
        rest == 2000 * a1 * a0 + a0 * a0
    IN  [hi |-> a1 * a1 + rest \div 1000000, lo |-> rest % 1000000]

\* the vector (dx, dy) is at most r long: dx^2 + dy^2 <= r^2
Within(dx, dy, r) ==
    LET sx == Square(dx)
        sy == Square(dy)
        sr == Square(r)
        hi == sx.hi + sy.hi + (sx.lo + sy.lo) \div 1000000
        lo == (sx.lo + sy.lo) % 1000000
    IN  hi < sr.hi \/ (hi = sr.hi /\ lo <= sr.lo)

\* the last tick ran the burst of the scenario on an empty pool
ScenarioBurst ==
    /\ rendered = ScenarioConfig
    /\ Len(bursts) = 1
    /\ bursts[1].pre = <<>>
    /\ bursts[1].x = 400 * Unit /\ bursts[1].y = 300 * Unit

\* C22: every burst particle is created with a speed in [0, spread]; in the
\* scenario (config with particleCount 100, gravity 0.15, friction 0.96, spread
\* 8, decayRate 0.015; burst at (400, 300) on an empty pool) the pool holds
\* exactly 100 particles after the tick, each with a speed of at most 8 and at
\* most 8 away from (400, 300).
C22_BurstSpeed ==
    /\ \A k \in 1 .. Len(bursts) :
          \A j \in Len(bursts[k].pre) + 1 .. Len(bursts[k].post) :
              Within(bursts[k].post[j].vx, bursts[k].post[j].vy, rendered.spread)
    /\ ScenarioBurst =>
          /\ Len(particles) = 100
          /\ \A i \in 1 .. Len(particles) :
                /\ Within(particles[i].vx, particles[i].vy, 8 * Unit)
                /\ Within(particles[i].x - 400 * Unit, particles[i].y - 300 * Unit,
                          8 * Unit)

\* the scenario's tick has run, with a particle launched along a diagonal at a
\* speed above 7.9 and one launched straight down at that speed
C22_Witness ==
    /\ ScenarioBurst
    /\ Len(particles) = 100
    /\ \E i \in 1 .. Len(particles) :
          /\ particles[i].steps = 1
          /\ particles[i].born.vx > 5 * Unit /\ particles[i].born.vy > 5 * Unit
          /\ ~Within(particles[i].born.vx, particles[i].born.vy, (79 * Unit) \div 10)
    /\ \E i \in 1 .. Len(particles) :
          /\ particles[i].born.vx = 0
          /\ particles[i].born.vy > (79 * Unit) \div 10
          /\ particles[i].vy > particles[i].born.vy \div 2

RECURSIVE Reverse(_)
Reverse(q) == IF q = <<>> THEN <<>> ELSE Append(Reverse(Tail(q)), Head(q))

\* vx *= friction; vy *= friction; vy += gravity; x += vx; y += vy;
\* alpha -= decay, applied once to p
IntegratedOnce(p, cfg) ==
    LET vx1 == MulFriction(p.vx, cfg.friction)
        vy1 == MulFriction(p.vy, cfg.friction) + cfg.gravity
    IN  [p EXCEPT !.vx = vx1, !.vy = vy1, !.x = p.x + vx1, !.y = p.y + vy1,
                  !.alpha = p.alpha - p.decay, !.prev = p.alpha,
                  !.steps = p.steps + 1]

\* x += vx; y += vy, applied once to rocket
AdvancedOnce(rocket) ==
    [rocket EXCEPT !.x = rocket.x + rocket.vx, !.y = rocket.y + rocket.vy,
                   !.age = rocket.age + 1]

\* C23: in a tick every particle that is in the pool when the particle pass
\* starts is integrated exactly once, whatever is removed during the pass: the
\* pool after the pass holds, in order, the integrated particles with
\* alpha > 0, and the removed ones are the others.  Likewise every rocket in
\* the pool at the start of the rocket pass is advanced exactly once: the pool
\* after it holds, in order, the advanced rockets above their target, and the
\* removed ones are the others.
C23_OncePerPass ==
    [][lastOp' = "tick" =>
          LET integrated == array([i \in 1 .. Len(passStart') |->
                                      IntegratedOnce(passStart'[i], rendered')])
              advanced   == array([i \in 1 .. Len(rockets) |->
                                      AdvancedOnce(rockets[i])])
          IN  /\ particles' = SelectSeq(integrated, LAMBDA p : p.alpha > 0)
              /\ removedParticles'
                    = Reverse(SelectSeq(integrated, LAMBDA p : p.alpha <= 0))
              /\ rockets' = SelectSeq(advanced, LAMBDA r : r.y > r.targetY)
              /\ removedRockets'
                    = Reverse(SelectSeq(advanced, LAMBDA r : r.y <= r.targetY))]_vars

\* a tick whose particle pass found three particles or more and removed one
\* that stood between two it kept
C23_Witness ==
    /\ lastOp = "tick"
    /\ Len(passStart) >= 3
    /\ \E i \in 2 .. Len(passStart) - 1 :
          /\ passStart[i].alpha <= passStart[i].decay
          /\ passStart[i - 1].alpha > passStart[i - 1].decay
          /\ passStart[i + 1].alpha > passStart[i + 1].decay
    /\ Len(particles) = Len(passStart) - 1

\* max(1, ceil((startY - targetY) / 12)): the ticks a rocket has at most
TickLimit(rocket) == Max(1, CeilDiv(rocket.y0 - rocket.targetY, 12 * Unit))

\* C24: with ticks kept running on an available surface every rocket is
\* removed in the end: a rocket rises by 12 or more per tick, its velocity and
\* target are what launchRocket gave it for as long as it is in the pool, it
\* is removed within max(1, ceil((startY - targetY) / 12)) ticks, and once the
\* spawn requests have ended the rocket pool becomes and stays empty.
C24_RocketsTerminate ==
    /\ [](\A i \in 1 .. Len(rockets) :
             /\ rockets[i].vy <= -12 * Unit
             /\ rockets[i].age < TickLimit(rockets[i])
             /\ rockets[i].y = rockets[i].y0 + rockets[i].age * rockets[i].vy)
    /\ [](\A k \in 1 .. Len(removedRockets) :
             removedRockets[k].age <= TickLimit(removedRockets[k]))
    /\ [][lastOp' = "tick" =>
             \A i \in 1 .. Len(rockets') :
                 \E j \in 1 .. Len(rockets) :
                     /\ rockets'[i].age = rockets[j].age + 1
                     /\ rockets'[i].y0 = rockets[j].y0
                     /\ rockets'[i].x = rockets[j].x + rockets[j].vx
                     /\ rockets'[i].vx = rockets[j].vx
                     /\ rockets'[i].vy = rockets[j].vy
                     /\ rockets'[i].targetY = rockets[j].targetY]_vars
    /\ [](rockets # <<>> => <>(rockets = <<>>))
    /\ <>[](rockets = <<>> /\ detonated = launched)

\* the last rocket of a run was removed after more than one tick in the pool
C24_Witness ==
    /\ lastOp = "tick"
    /\ rockets = <<>>
    /\ launched = MaxLaunches
    /\ detonated = launched
    /\ \E k \in 1 .. Len(removedRockets) : removedRockets[k].age >= 2

\* C25: at most one frame callback is pending at any time, whatever the
\* sequence of mount, tick, config change, resize and unmount; while the
\* component is mounted with the surface available exactly one is pending after
\* every tick, the one animationFrameRef names, closed over the current config.
C25_OnePending ==
    /\ Len(pending) <= 1
    /\ (mounted /\ canvas.present /\ canvas.hasCtx /\ lastOp = "tick") =>
          /\ Len(pending) = 1
          /\ pending[1].id = animationFrameRef
          /\ pending[1].cfg = config
    /\ ~mounted => pending = <<>>

\* a tick after a config change and a resize: one callback is pending, closed
\* over the changed config
C25_Witness ==
    /\ mounted /\ canvas.present /\ canvas.hasCtx
    /\ lastOp = "tick"
    /\ changes >= 1 /\ resizes >= 1
    /\ config # BaseConfig
    /\ Len(pending) = 1
    /\ pending[1].cfg = config

\* before event k a press (pointer-down or touch-start) has happened and no
\* release (pointer-up, pointer-leave, touch-end) since
ActiveBefore(k) ==
    \E j \in 1 .. k - 1 :
        /\ inputs[j].kind = "down"
        /\ \A m \in j + 1 .. k - 1 : inputs[m].kind # "up"

\* the events before event k that issued a spawn request
IssuedBefore(k) == {j \in 1 .. k - 1 : inputs[j].issued}

\* the time of the last spawn request issued before event k
LastIssueTime(k) ==
    inputs[CHOOSE j \in IssuedBefore(k) : \A m \in IssuedBefore(k) : m <= j].at

\* C26: a press always issues exactly one spawn request and makes the
\* interaction active; a move issues one exactly if the interaction is active
\* and more than 40 ms have passed since the last issued request; a release
\* issues none and ends the interaction, so that no move issues a request
\* until the next press; two consecutive requests of which the later is a
\* move's are more than 40 ms apart.
C26_Throttle ==
    /\ \A k \in 1 .. Len(inputs) :
          /\ inputs[k].kind = "down" => inputs[k].issued
          /\ inputs[k].kind = "up" => ~inputs[k].issued
          /\ inputs[k].kind = "move" =>
                (inputs[k].issued <=>
                    /\ ActiveBefore(k)
                    /\ inputs[k].at - LastIssueTime(k) > 40)
          /\ (inputs[k].kind = "move" /\ inputs[k].issued) =>
                \A j \in IssuedBefore(k) : inputs[k].at - inputs[j].at > 40
    /\ launched = Cardinality({k \in 1 .. Len(inputs) : inputs[k].issued})
    /\ isInteractionActive <=> ActiveBefore(Len(inputs) + 1)

\* a press, a move exactly 40 ms later that issued no request, and a move
\* after it that issued one
C26_Witness ==
    /\ Len(inputs) = 3
    /\ inputs[1].kind = "down"
    /\ inputs[2].kind = "move" /\ ~inputs[2].issued
    /\ inputs[2].at - inputs[1].at = 40
    /\ inputs[3].kind = "move" /\ inputs[3].issued
    /\ launched = 2

====
